---- MODULE Spec2Model ----
(***************************************************************************)
(* Model of gralloc_gbm.cpp: the buffer-object engine of the GBM gralloc   *)
(* module.  A descriptor (gralloc_gbm_handle_t) lives in each process; it  *)
(* names, through data_owner/data, the process-local gralloc_gbm_bo_t that *)
(* carries the lock/map bookkeeping.  Every action is one whole call of a  *)
(* public entry point, with the answers of libgbm drawn nondeterministically*)
(***************************************************************************)
EXTENDS Integers, FiniteSets, Sequences, TLC

\* ------------------------------------------------------------- bounds
\* Number of gralloc_gbm_bo_t objects that fit in memory at one time.
MaxObjs == 3
\* Cap on lock_count (an int in the code; nested locks are cut off here).
MaxLocks == 2
\* Logical widths and heights are 0..MaxDim.
MaxDim == 3
\* Calls the two threads of the thread study make in all.
MaxCalls == 3

\* ---------------------------------------------------------- constants
NULL == 0

\* Process ids (getpid()); 0 is the "unset" value of gralloc_gbm_pid.
Procs == {1, 2}
ObjIds == 1..MaxObjs
\* What gbm_bo_get_fd returns: -1 for a failure, or a descriptor (all valid
\* descriptors behave alike).
Fds == {-1, 0}

\* Usage masks are sets of bit positions: a & b is a \cap b.
GRALLOC_USAGE_SW_READ_MASK == {0, 1, 2, 3}
GRALLOC_USAGE_SW_WRITE_MASK == {4, 5, 6, 7}
GRALLOC_USAGE_SW_READ_OFTEN == {0, 1}
GRALLOC_USAGE_HW_TEXTURE == {8}
GRALLOC_USAGE_HW_FB == {12}
\* The usages the model draws from.  Bit 1 is SW_READ_RARELY, bits 0 and 1
\* SW_READ_OFTEN, bit 5 SW_WRITE_RARELY, bit 8 HW_TEXTURE, bit 9 HW_RENDER,
\* bit 12 HW_FB.  A descriptor is created with one of CreateUsages: those
\* without and those with a bit that relaxes the permission check.
CreateUsages == {{}, {5}, {9}, {5, 9}, {1}, {0, 1}, {8}, {12}}
\* A lock asks for CPU read, or any combination of CPU write and HW render.
LockUsages == {{1}} \cup SUBSET {5, 9}

\* gralloc_gbm_handle() returns NULL for a handle whose magic is wrong: that is
\* how a process that holds no descriptor is modelled.
NoHandle ==
    [magic |-> FALSE, usage |-> {}, prime_fd |-> -1, data_owner |-> 0, data |-> NULL]

VARIABLES
    handle,          \* handle[p]: process p's copy of the descriptor, or NoHandle
    heap,            \* heap[o]: the gralloc_gbm_bo_t with id o
    gralloc_gbm_pid, \* gralloc_gbm_pid[p]: the cached pid of process p
    op,              \* the last call: its name, process, usage argument and
                     \* the lock count it found (cnt, -1 without a bo)
    ret,             \* what the last call returned
    calls,           \* the libgbm primitives the last call invoked, in order
    geom,            \* the geometry study: a descriptor's logical width, height
                     \* and format, and the physical sizes handed to libgbm
    pc,              \* the thread study: pc[t] is the statement thread t is at
    loc,             \* loc[t]: the local variables of thread t
    hist             \* the writes of gralloc_gbm_pid counted, the gbm_bo_map and
                     \* gbm_bo_unmap calls in order, and whether undefined
                     \* behaviour was met

vars == <<handle, heap, gralloc_gbm_pid, op, ret, calls>>

\* A gralloc_gbm_bo_t: "new struct gralloc_gbm_bo_t()" zeroes every field.
NewBo == [live |-> TRUE, map_data |-> NULL, lock_count |-> 0, locked_for |-> {}]
\* Memory that is not (or no longer) a gralloc_gbm_bo_t.
NoBo == [live |-> FALSE, map_data |-> NULL, lock_count |-> 0, locked_for |-> {}]

\* "new struct gralloc_gbm_bo_t()": the address of the new object, one that
\* holds no live object (the lowest such id).
NewObj == CHOOSE o \in ObjIds : ~heap[o].live /\ \A q \in ObjIds : q < o => heap[q].live
\* Memory for one more object is left.
CanAllocate == \E o \in ObjIds : ~heap[o].live

CpuMask == GRALLOC_USAGE_SW_WRITE_MASK \cup GRALLOC_USAGE_SW_READ_MASK

Init ==
    /\ handle = [p \in Procs |-> NoHandle]
    /\ heap = [o \in ObjIds |-> NoBo]
    /\ gralloc_gbm_pid = [p \in Procs |-> 0]
    /\ op = [name |-> "init", proc |-> 0, usage |-> {}, cnt |-> -1]
    /\ ret = "none"
    /\ calls = <<>>

\* gralloc_gbm_get_pid: the value returned in process p.
GetPidValue(p) == IF gralloc_gbm_pid[p] = 0 THEN p ELSE gralloc_gbm_pid[p]
\* gralloc_gbm_get_pid: the cache after the call in process p.
GetPidCache(p) ==
    IF gralloc_gbm_pid[p] = 0
    THEN [gralloc_gbm_pid EXCEPT ![p] = p]
    ELSE gralloc_gbm_pid

\* gralloc_gbm_bo_from_handle: the bo of process p's handle, or NULL.
BoFromHandle(p) ==
    IF handle[p].magic /\ handle[p].data_owner = p THEN handle[p].data ELSE NULL

\* The lock count a call in process p finds: cnt of the ALOGI line of
\* gralloc_gbm_bo_lock, -1 when the handle resolves to no bo.
CntSeen(p) ==
    IF BoFromHandle(p) = NULL THEN -1 ELSE heap[BoFromHandle(p)].lock_count

\* ------------------------------------------------------------ lock / map
\* The permission check of gralloc_gbm_bo_lock: the request is a subset of
\* the creation usage, or the creation usage has a bit of SW_READ_OFTEN,
\* HW_FB or HW_TEXTURE.
LockPermitted(husage, usage) ==
    \/ (husage \cap usage) = usage
    \/ (husage \cap GRALLOC_USAGE_SW_READ_OFTEN) # {}
    \/ (husage \cap GRALLOC_USAGE_HW_FB) # {}
    \/ (husage \cap GRALLOC_USAGE_HW_TEXTURE) # {}

\* Mutant: the compatibility check is dropped.
LockCompatible_Always(bo, usage) == TRUE

\* "allow multiple locks with compatible usages"
LockCompatible(bo, usage) ==
    ~(bo.lock_count # 0 /\ (bo.locked_for \cap usage) # usage)

\* Mutant: every lock is taken to need a CPU mapping.
WantsCpu_Always(usage) == TRUE

\* The combined mask asks for CPU access.
WantsCpu(usage) == (usage \cap CpuMask) # {}

\* Mutant: an object that is mapped already is not mapped again, and the
\* call goes on.
GbmMap_SkipMapped(b, bo, mapOk) ==
    IF bo.map_data # NULL
    THEN [err |-> "0", bo |-> bo, calls |-> <<>>]
    ELSE IF mapOk
    THEN [err |-> "0", bo |-> [bo EXCEPT !.map_data = b],
          calls |-> << <<"gbm_bo_map", b>> >>]
    ELSE [err |-> "-ENOMEM", bo |-> bo, calls |-> << <<"gbm_bo_map", b>> >>]

\* gbm_map on bo b: [err, bo, calls].  mapOk is libgbm's answer: gbm_bo_map
\* returns an address and stores its token in map_data, or returns NULL and
\* leaves map_data alone.
GbmMap(b, bo, mapOk) ==
    IF bo.map_data # NULL
    THEN [err |-> "-EINVAL", bo |-> bo, calls |-> <<>>]
    ELSE IF mapOk
    THEN [err |-> "0", bo |-> [bo EXCEPT !.map_data = b],
          calls |-> << <<"gbm_bo_map", b>> >>]
    ELSE [err |-> "-ENOMEM", bo |-> bo, calls |-> << <<"gbm_bo_map", b>> >>]

\* The bookkeeping that ends a successful gralloc_gbm_bo_lock.
LockCommit(bo, usage) ==
    [bo EXCEPT !.lock_count = bo.lock_count + 1,
               !.locked_for = bo.locked_for \cup usage]

\* Mutant: locked_for is updated before the mapping is attempted.
BoLock_CommitBeforeMap(husage, b, bo, usage, mapOk) ==
    IF ~LockPermitted(husage, usage)
    THEN [err |-> "-EINVAL", bo |-> bo, calls |-> <<>>]
    ELSE IF ~LockCompatible(bo, usage)
    THEN [err |-> "-EINVAL", bo |-> bo, calls |-> <<>>]
    ELSE LET u == usage \cup bo.locked_for
             early == [bo EXCEPT !.locked_for = u]
         IN
         IF WantsCpu(u)
         THEN LET m == GbmMap(b, early, mapOk) IN
              IF m.err # "0"
              THEN m
              ELSE [err |-> "0", bo |-> LockCommit(m.bo, u), calls |-> m.calls]
         ELSE [err |-> "0", bo |-> LockCommit(bo, u), calls |-> <<>>]

\* gralloc_gbm_bo_lock on the bo b of a handle with creation usage husage:
\* [err, bo, calls].
BoLock(husage, b, bo, usage, mapOk) ==
    IF ~LockPermitted(husage, usage)
    THEN [err |-> "-EINVAL", bo |-> bo, calls |-> <<>>]
    ELSE IF ~LockCompatible(bo, usage)
    THEN [err |-> "-EINVAL", bo |-> bo, calls |-> <<>>]
    ELSE LET u == usage \cup bo.locked_for IN
         IF WantsCpu(u)
         THEN LET m == GbmMap(b, bo, mapOk) IN
              IF m.err # "0"
              THEN m
              ELSE [err |-> "0", bo |-> LockCommit(m.bo, u), calls |-> m.calls]
         ELSE [err |-> "0", bo |-> LockCommit(bo, u), calls |-> <<>>]

\* gralloc_gbm_bo_lock called in process p.
Lock(p, usage, mapOk) ==
    LET b == BoFromHandle(p) IN
    /\ op' = [name |-> "lock", proc |-> p, usage |-> usage, cnt |-> CntSeen(p)]
    /\ IF b = NULL
       THEN /\ ret' = "-EINVAL"
            /\ calls' = <<>>
            /\ heap' = heap
       ELSE LET r == BoLock(handle[p].usage, b, heap[b], usage, mapOk) IN
            /\ r.bo.lock_count <= MaxLocks
            /\ ret' = r.err
            /\ calls' = r.calls
            /\ heap' = [heap EXCEPT ![b] = r.bo]
    /\ UNCHANGED <<handle, gralloc_gbm_pid>>

\* Mutant: gbm_unmap forgets to reset map_data.
GbmUnmap_KeepToken(b, bo) ==
    [bo |-> bo, calls |-> << <<"gbm_bo_unmap", b>> >>]

\* gbm_unmap: [bo, calls].
GbmUnmap(b, bo) ==
    [bo |-> [bo EXCEPT !.map_data = NULL], calls |-> << <<"gbm_bo_unmap", b>> >>]

\* Mutant: the last unlock leaves locked_for as it was.
BoUnlock_KeepMask(b, bo) ==
    LET mapped == bo.locked_for \cap CpuMask IN
    IF bo.lock_count = 0
    THEN [err |-> "0", bo |-> bo, calls |-> <<>>]
    ELSE LET m == IF mapped # {} THEN GbmUnmap(b, bo)
                  ELSE [bo |-> bo, calls |-> <<>>]
         IN  [err |-> "0",
              bo |-> [m.bo EXCEPT !.lock_count = m.bo.lock_count - 1],
              calls |-> m.calls]

\* Mutant: no early return for an object that is not locked.
BoUnlock_NoZeroCheck(b, bo) ==
    LET mapped == bo.locked_for \cap CpuMask
        m == IF mapped # {} THEN GbmUnmap(b, bo) ELSE [bo |-> bo, calls |-> <<>>]
        n == m.bo.lock_count - 1
    IN  [err |-> "0",
         bo |-> [m.bo EXCEPT !.lock_count = n,
                             !.locked_for = IF n = 0 THEN {} ELSE @],
         calls |-> m.calls]

\* gralloc_gbm_bo_unlock on bo b: [err, bo, calls].
BoUnlock(b, bo) ==
    LET mapped == bo.locked_for \cap CpuMask IN
    IF bo.lock_count = 0
    THEN [err |-> "0", bo |-> bo, calls |-> <<>>]
    ELSE LET m == IF mapped # {} THEN GbmUnmap(b, bo)
                  ELSE [bo |-> bo, calls |-> <<>>]
             n == m.bo.lock_count - 1
         IN  [err |-> "0",
              bo |-> [m.bo EXCEPT !.lock_count = n,
                                  !.locked_for = IF n = 0 THEN {} ELSE @],
              calls |-> m.calls]

\* gralloc_gbm_bo_unlock called in process p.
Unlock(p) ==
    LET b == BoFromHandle(p) IN
    /\ op' = [name |-> "unlock", proc |-> p, usage |-> {}, cnt |-> CntSeen(p)]
    /\ IF b = NULL
       THEN /\ ret' = "-EINVAL"
            /\ calls' = <<>>
            /\ heap' = heap
       ELSE LET r == BoUnlock(b, heap[b]) IN
            /\ ret' = r.err
            /\ calls' = r.calls
            /\ heap' = [heap EXCEPT ![b] = r.bo]
    /\ UNCHANGED <<handle, gralloc_gbm_pid>>

\* ------------------------------------------------- create / import / free
\* Mutant: the record is not deleted when gbm_bo_import fails.
GbmImport_LeakOnReject(p, importOk) ==
    IF handle[p].prime_fd < 0
    THEN [bo |-> NULL, heap |-> heap, calls |-> <<>>]
    ELSE IF ~importOk
    THEN [bo |-> NULL, heap |-> [heap EXCEPT ![NewObj] = NewBo],
          calls |-> << <<"gbm_bo_import", NULL>> >>]
    ELSE [bo |-> NewObj, heap |-> [heap EXCEPT ![NewObj] = NewBo],
          calls |-> << <<"gbm_bo_import", NewObj>> >>]

\* gbm_import in process p: [bo, heap, calls].  importOk is libgbm's answer to
\* gbm_bo_import.
GbmImport(p, importOk) ==
    IF handle[p].prime_fd < 0
    THEN [bo |-> NULL, heap |-> heap, calls |-> <<>>]
    ELSE IF ~importOk
    THEN [bo |-> NULL, heap |-> heap, calls |-> << <<"gbm_bo_import", NULL>> >>]
    ELSE [bo |-> NewObj, heap |-> [heap EXCEPT ![NewObj] = NewBo],
          calls |-> << <<"gbm_bo_import", NewObj>> >>]

\* Mutant: the owner test never recognises the handle.
OwnedHere_Never(p) == FALSE

\* The test of validate_handle that the handle belongs to this process.
OwnedHere(p) == handle[p].data_owner = GetPidValue(p)

\* Mutant: the imported bo is stored, the owner is not.
ClaimOwnership_NoOwner(p, bo) == [handle[p] EXCEPT !.data = bo]

\* What validate_handle stores in the handle after gbm_import returned bo.
ClaimOwnership(p, bo) ==
    [handle[p] EXCEPT !.data_owner = GetPidValue(p), !.data = bo]

\* validate_handle in process p; gbm is TRUE when a device is passed:
\* [bo, handle, heap, pid, calls], handle being p's handle afterwards.
ValidateHandle(p, gbm, importOk) ==
    IF ~handle[p].magic
    THEN [bo |-> NULL, handle |-> handle[p], heap |-> heap,
          pid |-> gralloc_gbm_pid, calls |-> <<>>]
    ELSE IF OwnedHere(p)
    THEN [bo |-> handle[p].data, handle |-> handle[p], heap |-> heap,
          pid |-> GetPidCache(p), calls |-> <<>>]
    ELSE IF ~gbm
    THEN [bo |-> NULL, handle |-> handle[p], heap |-> heap,
          pid |-> GetPidCache(p), calls |-> <<>>]
    ELSE LET i == GbmImport(p, importOk) IN
         [bo |-> i.bo, handle |-> ClaimOwnership(p, i.bo), heap |-> i.heap,
          pid |-> GetPidCache(p), calls |-> i.calls]

\* gralloc_gbm_handle_register called in process p.
Register(p, gbm, importOk) ==
    /\ CanAllocate
    /\ LET v == ValidateHandle(p, gbm, importOk) IN
       /\ op' = [name |-> "register", proc |-> p, usage |-> {}, cnt |-> CntSeen(p)]
       /\ ret' = IF v.bo # NULL THEN "0" ELSE "-EINVAL"
       /\ calls' = v.calls
       /\ handle' = [handle EXCEPT ![p] = v.handle]
       /\ heap' = v.heap
       /\ gralloc_gbm_pid' = v.pid

\* gbm_free of bo b: [heap, calls].
GbmFree(b) ==
    [heap |-> [heap EXCEPT ![b] = NoBo], calls |-> << <<"gbm_bo_destroy", b>> >>]

\* Mutant: data keeps pointing at the destroyed bo.
ClearOwnership_KeepData(h) == [h EXCEPT !.data_owner = 0]

\* The handle after gralloc_gbm_handle_unregister destroyed its bo.
ClearOwnership(h) == [h EXCEPT !.data_owner = 0, !.data = NULL]

\* gralloc_gbm_handle_unregister called in process p.
Unregister(p) ==
    LET v == ValidateHandle(p, FALSE, FALSE) IN
    /\ op' = [name |-> "unregister", proc |-> p, usage |-> {}, cnt |-> CntSeen(p)]
    /\ gralloc_gbm_pid' = v.pid
    /\ IF v.bo = NULL
       THEN /\ ret' = "-EINVAL"
            /\ calls' = <<>>
            /\ handle' = handle
            /\ heap' = heap
       ELSE LET f == GbmFree(v.bo) IN
            /\ ret' = "0"
            /\ calls' = f.calls
            /\ heap' = f.heap
            /\ handle' = [handle EXCEPT ![p] = ClearOwnership(v.handle)]

\* create_bo_handle: a zeroed handle with the magic, the usage and no fd.
CreateBoHandle(usage) ==
    [magic |-> TRUE, usage |-> usage, prime_fd |-> -1, data_owner |-> 0,
     data |-> NULL]

\* gralloc_gbm_bo_create called in process p; the model follows one
\* descriptor, so no process holds one yet.  allocOk is libgbm's answer to
\* gbm_bo_create, fd that of gbm_bo_get_fd.
Create(p, usage, allocOk, fd) ==
    /\ \A q \in Procs : ~handle[q].magic
    /\ CanAllocate
    /\ op' = [name |-> "create", proc |-> p, usage |-> usage, cnt |-> -1]
    /\ calls' = << <<"gbm_bo_create", IF allocOk THEN NewObj ELSE NULL>> >>
    /\ IF ~allocOk
       THEN /\ ret' = "NULL"
            /\ UNCHANGED <<handle, heap, gralloc_gbm_pid>>
       ELSE /\ ret' = "handle"
            /\ heap' = [heap EXCEPT ![NewObj] = NewBo]
            /\ handle' = [handle EXCEPT ![p] =
                    [CreateBoHandle(usage) EXCEPT !.prime_fd = fd,
                                                  !.data_owner = GetPidValue(p),
                                                  !.data = NewObj]]
            /\ gralloc_gbm_pid' = GetPidCache(p)

\* The descriptor of process p arrives in process q, which holds none: its
\* fields are copied, data_owner and data as they are or zeroed by the sender.
Transfer(p, q, zeroed) ==
    /\ p # q
    /\ handle[p].magic
    /\ ~handle[q].magic
    /\ handle' = [handle EXCEPT ![q] =
            IF zeroed THEN ClearOwnership(handle[p]) ELSE handle[p]]
    /\ op' = [name |-> "transfer", proc |-> q, usage |-> {}, cnt |-> -1]
    /\ ret' = "none"
    /\ calls' = <<>>
    /\ UNCHANGED <<heap, gralloc_gbm_pid>>

\* -------------------------------------------------------------- threads
\* Two threads of one process call the entry points on the same descriptor;
\* a step is one statement (one access to shared memory).
Threads == {1, 2}
\* The pid of the process the threads belong to.
ThreadProc == 1
\* What the threads ask a lock for: CPU write, or hardware render.
ThreadLockUsages == {{5}, {9}}

\* The locals of a thread that is not inside a call; call, usage and ret keep
\* the last call made, n counts the calls.
IdleLoc ==
    [call |-> "none", usage |-> {}, gbm |-> FALSE, owner |-> 0, pid |-> 0,
     after |-> "none", bo |-> NULL, mbo |-> NULL, merged |-> {}, cnt |-> 0,
     ret |-> "none", n |-> 0]

\* No thread is running.
ThreadIdle ==
    /\ pc = [t \in Threads |-> "idle"]
    /\ loc = [t \in Threads |-> IdleLoc]
    /\ hist = [pid_writes |-> 0, trace |-> <<>>, ub |-> FALSE]

\* ------------------------------------------------------------- geometry
\* The pixel formats of the geometry study: the planar one and a packed one.
Formats == {"HAL_PIXEL_FORMAT_YV12", "HAL_PIXEL_FORMAT_RGBA_8888"}

\* get_gbm_format.
GetGbmFormat(format) ==
    IF format = "HAL_PIXEL_FORMAT_YV12" THEN "GBM_FORMAT_GR88"
    ELSE "GBM_FORMAT_ABGR8888"

\* get_pipe_bind never sets GBM_BO_USE_CURSOR (the line is commented out).
UsesCursor == FALSE

\* No size has been handed to libgbm yet.
NoSize == [set |-> FALSE, width |-> 0, height |-> 0, format |-> "none"]

\* gbm_alloc: the width, height and format handed to gbm_bo_create.
AllocGeometry(w, h, format) ==
    LET width == IF UsesCursor /\ w < 64 THEN 64 ELSE w
        height == IF UsesCursor /\ h < 64 THEN 64 ELSE h
    IN  IF format = "HAL_PIXEL_FORMAT_YV12"
        THEN [set |-> TRUE, width |-> width \div 2, height |-> height + (h \div 2),
              format |-> GetGbmFormat(format)]
        ELSE [set |-> TRUE, width |-> width, height |-> height,
              format |-> GetGbmFormat(format)]

\* gbm_import: the width, height and format of the import data.
ImportGeometry(w, h, format) ==
    IF format = "HAL_PIXEL_FORMAT_YV12"
    THEN [set |-> TRUE, width |-> w \div 2, height |-> h + (h \div 2),
          format |-> GetGbmFormat(format)]
    ELSE [set |-> TRUE, width |-> w, height |-> h, format |-> GetGbmFormat(format)]

\* Mutant: gbm_map does not halve the width of a planar buffer.
MapGeometry_NoHalving(x, y, w, h, format) ==
    IF format = "HAL_PIXEL_FORMAT_YV12"
    THEN [set |-> TRUE, width |-> x + w, height |-> y + (h + (h \div 2)),
          format |-> GetGbmFormat(format)]
    ELSE [set |-> TRUE, width |-> x + w, height |-> y + h,
          format |-> GetGbmFormat(format)]

\* gbm_map of the rectangle (x, y, w, h): the width and height handed to
\* gbm_bo_map, whose rectangle starts at (0, 0).
MapGeometry(x, y, w, h, format) ==
    IF format = "HAL_PIXEL_FORMAT_YV12"
    THEN [set |-> TRUE, width |-> x + (w \div 2), height |-> y + (h + (h \div 2)),
          format |-> GetGbmFormat(format)]
    ELSE [set |-> TRUE, width |-> x + w, height |-> y + h,
          format |-> GetGbmFormat(format)]

\* The geometry study is not running.
GeomIdle ==
    [width |-> 0, height |-> 0, format |-> "none", x |-> 0, y |-> 0,
     alloc |-> NoSize, import |-> NoSize, map |-> NoSize]

\* gbm_alloc is called for the descriptor.
GeomAlloc ==
    geom' = [geom EXCEPT !.alloc = AllocGeometry(geom.width, geom.height, geom.format)]

\* gbm_import is called for the descriptor.
GeomImport ==
    geom' = [geom EXCEPT !.import = ImportGeometry(geom.width, geom.height, geom.format)]

\* gbm_map is called for the descriptor's full width and height at offset
\* (x, y).
GeomMap(x, y) ==
    geom' = [geom EXCEPT !.x = x, !.y = y,
                         !.map = MapGeometry(x, y, geom.width, geom.height, geom.format)]

GeomInit ==
    /\ Init
    /\ ThreadIdle
    /\ \E w \in 0..MaxDim, h \in 0..MaxDim, f \in Formats :
          geom = [GeomIdle EXCEPT !.width = w, !.height = h, !.format = f]

GeomNext ==
    \/ GeomAlloc /\ UNCHANGED <<vars, pc, loc, hist>>
    \/ GeomImport /\ UNCHANGED <<vars, pc, loc, hist>>
    \/ \E x \in 0..1, y \in 0..1 : GeomMap(x, y) /\ UNCHANGED <<vars, pc, loc, hist>>

\* The three places that compute the physical size of a buffer.
GeomSpec == GeomInit /\ [][GeomNext]_<<vars, geom, pc, loc, hist>>

\* ------------------------------------------------------- thread steps
\* What the thread steps never touch.
tfix == <<op, ret, calls, geom>>

\* The descriptor the threads share.
ThreadHandle == handle[ThreadProc]

\* Pointer b refers to a gralloc_gbm_bo_t that exists.
Live(b) == b # NULL /\ heap[b].live

\* Thread t goes to statement next with locals l.
Step(t, next, l) ==
    /\ pc' = [pc EXCEPT ![t] = next]
    /\ loc' = [loc EXCEPT ![t] = l]

\* Thread t returns r from its call.
Return(t, r) ==
    Step(t, "idle", [IdleLoc EXCEPT !.call = loc[t].call, !.usage = loc[t].usage,
                                    !.ret = r, !.n = loc[t].n])

\* Thread t uses a pointer to no object or to a destroyed one: the behaviour
\* is undefined from here on, and the model follows it no further.
Undefined(t) ==
    /\ pc' = [pc EXCEPT ![t] = "undefined"]
    /\ hist' = [hist EXCEPT !.ub = TRUE]
    /\ UNCHANGED <<loc, handle, heap, gralloc_gbm_pid>>

\* The calls the threads have made so far.
CallsMade == loc[1].n + loc[2].n

\* Thread t is idle and one more call may be made.
CanCall(t) == pc[t] = "idle" /\ CallsMade < MaxCalls /\ ~hist.ub

\* Thread t is at statement s.
At(t, s) == pc[t] = s /\ ~hist.ub

\* gralloc_gbm_handle_register(handle, gbm) is called: validate_handle starts
\* with the owner test, whose two operands are evaluated in either order (owner
\* holds data_owner as read before gralloc_gbm_get_pid runs).
TRegister(t) ==
    /\ CanCall(t)
    /\ Step(t, "pid_test", [IdleLoc EXCEPT !.call = "register", !.gbm = TRUE,
                                           !.owner = ThreadHandle.data_owner,
                                           !.after = "vh_owner_test",
                                           !.n = loc[t].n + 1])
    /\ UNCHANGED <<handle, heap, gralloc_gbm_pid, hist, tfix>>

\* gralloc_gbm_handle_unregister(handle) is called: validate_handle(handle, NULL).
TUnregister(t) ==
    /\ CanCall(t)
    /\ Step(t, "pid_test", [IdleLoc EXCEPT !.call = "unregister", !.gbm = FALSE,
                                           !.owner = ThreadHandle.data_owner,
                                           !.after = "vh_owner_test",
                                           !.n = loc[t].n + 1])
    /\ UNCHANGED <<handle, heap, gralloc_gbm_pid, hist, tfix>>

\* gralloc_gbm_bo_lock(handle, usage, ...) is called.
TLock(t, usage) ==
    /\ CanCall(t)
    /\ Step(t, "lk_resolve", [IdleLoc EXCEPT !.call = "lock", !.usage = usage,
                                             !.n = loc[t].n + 1])
    /\ UNCHANGED <<handle, heap, gralloc_gbm_pid, hist, tfix>>

\* gralloc_gbm_bo_unlock(handle) is called.
TUnlock(t) ==
    /\ CanCall(t)
    /\ Step(t, "ul_resolve", [IdleLoc EXCEPT !.call = "unlock", !.n = loc[t].n + 1])
    /\ UNCHANGED <<handle, heap, gralloc_gbm_pid, hist, tfix>>

\* gralloc_gbm_get_pid: if (unlikely(!gralloc_gbm_pid))
TPidTest(t) ==
    /\ At(t, "pid_test")
    /\ Step(t, IF gralloc_gbm_pid[ThreadProc] = 0 THEN "pid_write" ELSE "pid_ret",
            loc[t])
    /\ UNCHANGED <<handle, heap, gralloc_gbm_pid, hist, tfix>>

\* gralloc_gbm_get_pid: android_atomic_write(getpid(), &gralloc_gbm_pid)
TPidWrite(t) ==
    /\ At(t, "pid_write")
    /\ gralloc_gbm_pid' = [gralloc_gbm_pid EXCEPT ![ThreadProc] = ThreadProc]
    /\ hist' = [hist EXCEPT !.pid_writes = @ + 1]
    /\ Step(t, "pid_ret", loc[t])
    /\ UNCHANGED <<handle, heap, tfix>>

\* gralloc_gbm_get_pid: return gralloc_gbm_pid
TPidRet(t) ==
    /\ At(t, "pid_ret")
    /\ Step(t, loc[t].after, [loc[t] EXCEPT !.pid = gralloc_gbm_pid[ThreadProc]])
    /\ UNCHANGED <<handle, heap, gralloc_gbm_pid, hist, tfix>>

\* validate_handle: if (handle->data_owner == gralloc_gbm_get_pid()), then
\* if (!gbm) return NULL
TVhOwnerTest(t) ==
    /\ At(t, "vh_owner_test")
    /\ \E o \in {loc[t].owner, ThreadHandle.data_owner} :
          IF o = loc[t].pid
          THEN Step(t, "vh_read_data", loc[t])
          ELSE IF ~loc[t].gbm
          THEN Step(t, "vh_done", [loc[t] EXCEPT !.bo = NULL])
          ELSE Step(t, "vh_import", loc[t])
    /\ UNCHANGED <<handle, heap, gralloc_gbm_pid, hist, tfix>>

\* validate_handle: return (struct gralloc_gbm_bo_t *)handle->data
TVhReadData(t) ==
    /\ At(t, "vh_read_data")
    /\ Step(t, "vh_done", [loc[t] EXCEPT !.bo = ThreadHandle.data])
    /\ UNCHANGED <<handle, heap, gralloc_gbm_pid, hist, tfix>>

\* validate_handle: bo = gbm_import(gbm, handle); gralloc_gbm_get_pid is
\* called next, for the value to store in data_owner.
TVhImport(t, importOk) ==
    /\ At(t, "vh_import")
    /\ CanAllocate
    /\ LET i == GbmImport(ThreadProc, importOk) IN
       /\ heap' = i.heap
       /\ Step(t, "pid_test", [loc[t] EXCEPT !.bo = i.bo, !.after = "vh_set_owner"])
    /\ UNCHANGED <<handle, gralloc_gbm_pid, hist, tfix>>

\* validate_handle: handle->data_owner = gralloc_gbm_get_pid()
TVhSetOwner(t) ==
    /\ At(t, "vh_set_owner")
    /\ handle' = [handle EXCEPT ![ThreadProc].data_owner = loc[t].pid]
    /\ Step(t, "vh_set_data", loc[t])
    /\ UNCHANGED <<heap, gralloc_gbm_pid, hist, tfix>>

\* validate_handle: handle->data = bo
TVhSetData(t) ==
    /\ At(t, "vh_set_data")
    /\ handle' = [handle EXCEPT ![ThreadProc].data = loc[t].bo]
    /\ Step(t, "vh_done", loc[t])
    /\ UNCHANGED <<heap, gralloc_gbm_pid, hist, tfix>>

\* gralloc_gbm_handle_register: return (validate_handle(...)) ? 0 : -EINVAL
TRegisterRet(t) ==
    /\ At(t, "vh_done")
    /\ loc[t].call = "register"
    /\ Return(t, IF loc[t].bo # NULL THEN "0" ELSE "-EINVAL")
    /\ UNCHANGED <<handle, heap, gralloc_gbm_pid, hist, tfix>>

\* gralloc_gbm_handle_unregister: if (!bo) return -EINVAL
TUnregisterCheck(t) ==
    /\ At(t, "vh_done")
    /\ loc[t].call = "unregister"
    /\ IF loc[t].bo = NULL
       THEN Return(t, "-EINVAL")
       ELSE Step(t, "un_free", loc[t])
    /\ UNCHANGED <<handle, heap, gralloc_gbm_pid, hist, tfix>>

\* gralloc_gbm_handle_unregister: gbm_free(bo)
TUnFree(t) ==
    /\ At(t, "un_free")
    /\ IF ~Live(loc[t].bo)
       THEN Undefined(t)
       ELSE /\ heap' = GbmFree(loc[t].bo).heap
            /\ Step(t, "un_clear_owner", loc[t])
            /\ UNCHANGED <<handle, gralloc_gbm_pid, hist>>
    /\ UNCHANGED tfix

\* gralloc_gbm_handle_unregister: gbm_handle->data_owner = 0
TUnClearOwner(t) ==
    /\ At(t, "un_clear_owner")
    /\ handle' = [handle EXCEPT ![ThreadProc].data_owner = 0]
    /\ Step(t, "un_clear_data", loc[t])
    /\ UNCHANGED <<heap, gralloc_gbm_pid, hist, tfix>>

\* gralloc_gbm_handle_unregister: gbm_handle->data = 0; return 0
TUnClearData(t) ==
    /\ At(t, "un_clear_data")
    /\ handle' = [handle EXCEPT ![ThreadProc].data = NULL]
    /\ Return(t, "0")
    /\ UNCHANGED <<heap, gralloc_gbm_pid, hist, tfix>>

\* gralloc_gbm_bo_lock: bo = gralloc_gbm_bo_from_handle(handle);
\* if (!bo) return -EINVAL
TLkResolve(t) ==
    /\ At(t, "lk_resolve")
    /\ IF BoFromHandle(ThreadProc) = NULL
       THEN Return(t, "-EINVAL")
       ELSE Step(t, "lk_perm", [loc[t] EXCEPT !.bo = BoFromHandle(ThreadProc)])
    /\ UNCHANGED <<handle, heap, gralloc_gbm_pid, hist, tfix>>

\* gralloc_gbm_bo_lock: ALOGI(... bo->lock_count ...) and the permission check
TLkPerm(t) ==
    /\ At(t, "lk_perm")
    /\ IF ~Live(loc[t].bo)
       THEN Undefined(t)
       ELSE /\ IF LockPermitted(ThreadHandle.usage, loc[t].usage)
               THEN Step(t, "lk_compat", loc[t])
               ELSE Return(t, "-EINVAL")
            /\ UNCHANGED <<handle, heap, gralloc_gbm_pid, hist>>
    /\ UNCHANGED tfix

\* gralloc_gbm_bo_lock: if (bo->lock_count && (bo->locked_for & usage) != usage)
TLkCompat(t) ==
    /\ At(t, "lk_compat")
    /\ IF ~Live(loc[t].bo)
       THEN Undefined(t)
       ELSE /\ IF LockCompatible(heap[loc[t].bo], loc[t].usage)
               THEN Step(t, "lk_merge", loc[t])
               ELSE Return(t, "-EINVAL")
            /\ UNCHANGED <<handle, heap, gralloc_gbm_pid, hist>>
    /\ UNCHANGED tfix

\* gralloc_gbm_bo_lock: usage |= bo->locked_for; if (usage & (SW masks))
TLkMerge(t) ==
    /\ At(t, "lk_merge")
    /\ IF ~Live(loc[t].bo)
       THEN Undefined(t)
       ELSE /\ LET u == loc[t].usage \cup heap[loc[t].bo].locked_for IN
               Step(t, IF WantsCpu(u) THEN "map_check" ELSE "lk_inc_read",
                    [loc[t] EXCEPT !.merged = u])
            /\ UNCHANGED <<handle, heap, gralloc_gbm_pid, hist>>
    /\ UNCHANGED tfix

\* Mutant: an object that is mapped already is not mapped again, and the
\* call goes on.
TMapCheck_SkipMapped(t) ==
    /\ At(t, "map_check")
    /\ LET b == BoFromHandle(ThreadProc) IN
       IF ~Live(b)
       THEN Undefined(t)
       ELSE /\ IF heap[b].map_data # NULL
               THEN Step(t, "lk_inc_read", loc[t])
               ELSE Step(t, "map_call", [loc[t] EXCEPT !.mbo = b])
            /\ UNCHANGED <<handle, heap, gralloc_gbm_pid, hist>>
    /\ UNCHANGED tfix

\* gbm_map: bo = gralloc_gbm_bo_from_handle(handle);
\* if (bo->map_data) return -EINVAL
TMapCheck(t) ==
    /\ At(t, "map_check")
    /\ LET b == BoFromHandle(ThreadProc) IN
       IF ~Live(b)
       THEN Undefined(t)
       ELSE /\ IF heap[b].map_data # NULL
               THEN Return(t, "-EINVAL")
               ELSE Step(t, "map_call", [loc[t] EXCEPT !.mbo = b])
            /\ UNCHANGED <<handle, heap, gralloc_gbm_pid, hist>>
    /\ UNCHANGED tfix

\* gbm_map: *addr = gbm_bo_map(bo->bo, ..., &bo->map_data);
\* if (*addr == NULL) return -ENOMEM
TMapCall(t, mapOk) ==
    /\ At(t, "map_call")
    /\ LET b == loc[t].mbo IN
       IF ~Live(b)
       THEN Undefined(t)
       ELSE /\ hist' = [hist EXCEPT !.trace = Append(@, "gbm_bo_map")]
            /\ IF mapOk
               THEN /\ heap' = [heap EXCEPT ![b].map_data = b]
                    /\ Step(t, "lk_inc_read", loc[t])
               ELSE /\ heap' = heap
                    /\ Return(t, "-ENOMEM")
            /\ UNCHANGED <<handle, gralloc_gbm_pid>>
    /\ UNCHANGED tfix

\* gralloc_gbm_bo_lock: bo->lock_count++, the read
TLkIncRead(t) ==
    /\ At(t, "lk_inc_read")
    /\ IF ~Live(loc[t].bo)
       THEN Undefined(t)
       ELSE /\ Step(t, "lk_inc_write",
                    [loc[t] EXCEPT !.cnt = heap[loc[t].bo].lock_count])
            /\ UNCHANGED <<handle, heap, gralloc_gbm_pid, hist>>
    /\ UNCHANGED tfix

\* gralloc_gbm_bo_lock: bo->lock_count++, the write
TLkIncWrite(t) ==
    /\ At(t, "lk_inc_write")
    /\ loc[t].cnt + 1 <= MaxLocks
    /\ IF ~Live(loc[t].bo)
       THEN Undefined(t)
       ELSE /\ heap' = [heap EXCEPT ![loc[t].bo].lock_count = loc[t].cnt + 1]
            /\ Step(t, "lk_mask", loc[t])
            /\ UNCHANGED <<handle, gralloc_gbm_pid, hist>>
    /\ UNCHANGED tfix

\* gralloc_gbm_bo_lock: bo->locked_for |= usage; return 0
TLkMask(t) ==
    /\ At(t, "lk_mask")
    /\ IF ~Live(loc[t].bo)
       THEN Undefined(t)
       ELSE /\ heap' = [heap EXCEPT ![loc[t].bo].locked_for = @ \cup loc[t].merged]
            /\ Return(t, "0")
            /\ UNCHANGED <<handle, gralloc_gbm_pid, hist>>
    /\ UNCHANGED tfix

\* gralloc_gbm_bo_unlock: bo = gralloc_gbm_bo_from_handle(handle);
\* if (!bo) return -EINVAL
TUlResolve(t) ==
    /\ At(t, "ul_resolve")
    /\ IF BoFromHandle(ThreadProc) = NULL
       THEN Return(t, "-EINVAL")
       ELSE Step(t, "ul_mapped", [loc[t] EXCEPT !.bo = BoFromHandle(ThreadProc)])
    /\ UNCHANGED <<handle, heap, gralloc_gbm_pid, hist, tfix>>

\* gralloc_gbm_bo_unlock: int mapped = bo->locked_for & (SW masks)
TUlMapped(t) ==
    /\ At(t, "ul_mapped")
    /\ IF ~Live(loc[t].bo)
       THEN Undefined(t)
       ELSE /\ Step(t, "ul_check",
                    [loc[t] EXCEPT !.merged = heap[loc[t].bo].locked_for \cap CpuMask])
            /\ UNCHANGED <<handle, heap, gralloc_gbm_pid, hist>>
    /\ UNCHANGED tfix

\* gralloc_gbm_bo_unlock: if (!bo->lock_count) return 0; if (mapped)
TUlCheck(t) ==
    /\ At(t, "ul_check")
    /\ IF ~Live(loc[t].bo)
       THEN Undefined(t)
       ELSE /\ IF heap[loc[t].bo].lock_count = 0
               THEN Return(t, "0")
               ELSE Step(t, IF loc[t].merged # {} THEN "ul_unmap" ELSE "ul_dec",
                         loc[t])
            /\ UNCHANGED <<handle, heap, gralloc_gbm_pid, hist>>
    /\ UNCHANGED tfix

\* gbm_unmap: gbm_bo_unmap(bo->bo, bo->map_data); bo->map_data = NULL
TUlUnmap(t) ==
    /\ At(t, "ul_unmap")
    /\ IF ~Live(loc[t].bo)
       THEN Undefined(t)
       ELSE /\ hist' = [hist EXCEPT !.trace = Append(@, "gbm_bo_unmap")]
            /\ heap' = [heap EXCEPT ![loc[t].bo] = GbmUnmap(loc[t].bo, @).bo]
            /\ Step(t, "ul_dec", loc[t])
            /\ UNCHANGED <<handle, gralloc_gbm_pid>>
    /\ UNCHANGED tfix

\* gralloc_gbm_bo_unlock: bo->lock_count--
TUlDec(t) ==
    /\ At(t, "ul_dec")
    /\ IF ~Live(loc[t].bo)
       THEN Undefined(t)
       ELSE /\ heap' = [heap EXCEPT ![loc[t].bo].lock_count = @ - 1]
            /\ Step(t, "ul_zero", loc[t])
            /\ UNCHANGED <<handle, gralloc_gbm_pid, hist>>
    /\ UNCHANGED tfix

\* gralloc_gbm_bo_unlock: if (!bo->lock_count) bo->locked_for = 0; return 0
TUlZero(t) ==
    /\ At(t, "ul_zero")
    /\ IF ~Live(loc[t].bo)
       THEN Undefined(t)
       ELSE /\ heap' = [heap EXCEPT ![loc[t].bo].locked_for =
                            IF heap[loc[t].bo].lock_count = 0 THEN {} ELSE @]
            /\ Return(t, "0")
            /\ UNCHANGED <<handle, gralloc_gbm_pid, hist>>
    /\ UNCHANGED tfix

\* The descriptor the threads start with: one gralloc_gbm_bo_create made in
\* this process, or one that arrived from another process and is not
\* registered yet (gralloc_gbm_pid still unset).
ThreadInit ==
    /\ ThreadIdle
    /\ geom = GeomIdle
    /\ op = [name |-> "init", proc |-> 0, usage |-> {}, cnt |-> -1]
    /\ ret = "none"
    /\ calls = <<>>
    /\ \E local \in BOOLEAN :
          LET h == [CreateBoHandle({5, 9}) EXCEPT !.prime_fd = 0] IN
          IF local
          THEN /\ handle = [p \in Procs |->
                      IF p = ThreadProc
                      THEN [h EXCEPT !.data_owner = ThreadProc, !.data = 1]
                      ELSE NoHandle]
               /\ heap = [o \in ObjIds |-> IF o = 1 THEN NewBo ELSE NoBo]
               /\ gralloc_gbm_pid = [p \in Procs |-> IF p = ThreadProc THEN p ELSE 0]
          ELSE /\ handle = [p \in Procs |-> IF p = ThreadProc THEN h ELSE NoHandle]
               /\ heap = [o \in ObjIds |-> NoBo]
               /\ gralloc_gbm_pid = [p \in Procs |-> 0]

ThreadNext ==
    \/ \E t \in Threads : TRegister(t)
    \/ \E t \in Threads : TUnregister(t)
    \/ \E t \in Threads, u \in ThreadLockUsages : TLock(t, u)
    \/ \E t \in Threads : TUnlock(t)
    \/ \E t \in Threads : TPidTest(t)
    \/ \E t \in Threads : TPidWrite(t)
    \/ \E t \in Threads : TPidRet(t)
    \/ \E t \in Threads : TVhOwnerTest(t)
    \/ \E t \in Threads : TVhReadData(t)
    \/ \E t \in Threads, ok \in BOOLEAN : TVhImport(t, ok)
    \/ \E t \in Threads : TVhSetOwner(t)
    \/ \E t \in Threads : TVhSetData(t)
    \/ \E t \in Threads : TRegisterRet(t)
    \/ \E t \in Threads : TUnregisterCheck(t)
    \/ \E t \in Threads : TUnFree(t)
    \/ \E t \in Threads : TUnClearOwner(t)
    \/ \E t \in Threads : TUnClearData(t)
    \/ \E t \in Threads : TLkResolve(t)
    \/ \E t \in Threads : TLkPerm(t)
    \/ \E t \in Threads : TLkCompat(t)
    \/ \E t \in Threads : TLkMerge(t)
    \/ \E t \in Threads : TMapCheck(t)
    \/ \E t \in Threads, ok \in BOOLEAN : TMapCall(t, ok)
    \/ \E t \in Threads : TLkIncRead(t)
    \/ \E t \in Threads : TLkIncWrite(t)
    \/ \E t \in Threads : TLkMask(t)
    \/ \E t \in Threads : TUlResolve(t)
    \/ \E t \in Threads : TUlMapped(t)
    \/ \E t \in Threads : TUlCheck(t)
    \/ \E t \in Threads : TUlUnmap(t)
    \/ \E t \in Threads : TUlDec(t)
    \/ \E t \in Threads : TUlZero(t)

\* The entry points called from two threads with no mutual exclusion.
ThreadSpec == ThreadInit /\ [][ThreadNext]_<<vars, geom, pc, loc, hist>>

\* ------------------------------------------------------ the entry points
Next ==
    \/ \E p \in Procs, u \in CreateUsages, ok \in BOOLEAN, fd \in Fds :
            Create(p, u, ok, fd) /\ UNCHANGED <<geom, pc, loc, hist>>
    \/ \E p \in Procs, gbm \in BOOLEAN, ok \in BOOLEAN :
            Register(p, gbm, ok) /\ UNCHANGED <<geom, pc, loc, hist>>
    \/ \E p \in Procs : Unregister(p) /\ UNCHANGED <<geom, pc, loc, hist>>
    \/ \E p \in Procs, u \in LockUsages, ok \in BOOLEAN :
            Lock(p, u, ok) /\ UNCHANGED <<geom, pc, loc, hist>>
    \/ \E p \in Procs : Unlock(p) /\ UNCHANGED <<geom, pc, loc, hist>>
    \/ \E p \in Procs, q \in Procs, z \in BOOLEAN :
            Transfer(p, q, z) /\ UNCHANGED <<geom, pc, loc, hist>>

\* No call has been made, and the two studies are not running.
SpecInit == Init /\ geom = GeomIdle /\ ThreadIdle

Spec == SpecInit /\ [][Next]_<<vars, geom, pc, loc, hist>>

\* Sanity: a handle owned here names a live object or NULL.
TypeOK ==
    /\ \A p \in Procs :
          BoFromHandle(p) # NULL => heap[BoFromHandle(p)].live
    /\ \A o \in ObjIds : heap[o].lock_count \in 0..MaxLocks

\* ------------------------------------------------------------ properties
\* The step is a call of entry point name in process p.
IsCall(name, p) == op'.name = name /\ op'.proc = p
\* The last call invoked libgbm's primitive prim.
Invoked(prim) == \E i \in 1..Len(calls) : calls[i][1] = prim
\* The object is in the Unlocked state.
Unlocked(bo) == bo.lock_count = 0 /\ bo.locked_for = {} /\ bo.map_data = NULL

\* C1: in every reachable state a buffer object's map_data is non-null if
\* and only if its lock count is positive and locked_for has a CPU read or
\* write bit.
C1_MappedIffCpuLocked ==
    \A o \in ObjIds :
        heap[o].live =>
            ((heap[o].map_data # NULL) <=>
                (heap[o].lock_count > 0 /\ WantsCpu(heap[o].locked_for)))

\* C1 witness: a lock with CPU intent mapped the object.
C1_Witness ==
    /\ op.name = "lock" /\ ret = "0" /\ Invoked("gbm_bo_map")
    /\ heap[handle[op.proc].data].map_data # NULL

\* C2 (as claimed): a Lock whose usage is a subset of the mask of an object
\* locked once succeeds and raises the lock count from 1 to 2, also when the
\* mask has CPU intent.
C2_NestedCompatibleLockSucceeds ==
    [][\A p \in Procs :
        LET b == BoFromHandle(p) IN
        (/\ IsCall("lock", p)
         /\ b # NULL
         /\ heap[b].lock_count = 1
         /\ op'.usage \subseteq heap[b].locked_for
         /\ ret' # "-ENOMEM")
        => (ret' = "0" /\ heap'[b].lock_count = 2)]_vars

\* C3: a Lock on a locked object whose usage bits are not all in locked_for
\* returns -EINVAL.
C3_IncompatibleNestedLockFails ==
    [][\A p \in Procs :
        LET b == BoFromHandle(p) IN
        (/\ IsCall("lock", p)
         /\ b # NULL
         /\ heap[b].lock_count > 0
         /\ ~(op'.usage \subseteq heap[b].locked_for))
        => (ret' = "-EINVAL" /\ heap' = heap)]_vars

\* C3 witness: a permitted Lock was refused on a locked object because its
\* usage is not within locked_for (a refused Lock changes nothing, so the
\* state shows what it found).
C3_Witness ==
    /\ op.name = "lock" /\ ret = "-EINVAL" /\ op.cnt > 0
    /\ LockPermitted(handle[op.proc].usage, op.usage)
    /\ ~(op.usage \subseteq heap[handle[op.proc].data].locked_for)
    /\ ~WantsCpu(heap[handle[op.proc].data].locked_for)

\* C4: a permitted Lock on an Unlocked object succeeds unless libgbm fails to
\* map, and the Unlock that follows it succeeds and leaves the object
\* Unlocked again; so do any number of (Lock, Unlock) pairs.
C4_LockUnlockPairs ==
    [][\A p \in Procs :
        LET b == BoFromHandle(p) IN
        /\ (/\ IsCall("lock", p)
            /\ b # NULL
            /\ Unlocked(heap[b])
            /\ LockPermitted(handle[p].usage, op'.usage)
            /\ ret' # "-ENOMEM")
           => (ret' = "0" /\ heap'[b].lock_count = 1)
        /\ (/\ IsCall("unlock", p)
            /\ op.name = "lock" /\ op.proc = p /\ op.cnt = 0 /\ ret = "0")
           => (ret' = "0" /\ Unlocked(heap'[b]))]_vars

\* C4 witness: the Unlock of a pair with CPU intent has unmapped the object
\* and left it Unlocked.
C4_Witness ==
    /\ op.name = "unlock" /\ ret = "0" /\ op.cnt = 1
    /\ Invoked("gbm_bo_unmap")
    /\ Unlocked(heap[handle[op.proc].data])

\* C5: Unlock on a resolvable object whose lock count is 0 returns success,
\* calls no libgbm primitive and changes nothing; no lock count is ever
\* negative.
C5_IdempotentUnlock ==
    [][/\ \A o \in ObjIds : heap'[o].lock_count >= 0
       /\ \A p \in Procs :
            LET b == BoFromHandle(p) IN
            (IsCall("unlock", p) /\ b # NULL /\ heap[b].lock_count = 0)
            => (ret' = "0" /\ calls' = <<>> /\ heap' = heap)]_vars

\* C5 witness: an Unlock found the lock count at 0 and returned success.
C5_Witness ==
    /\ op.name = "unlock" /\ op.cnt = 0 /\ ret = "0"
    /\ heap[handle[op.proc].data].lock_count = 0

\* The descriptor of process p is one of this process that resolves to no
\* object: owner and data are zero, or a failed import left the owner set.
Inert(p) ==
    /\ handle[p].magic
    /\ handle[p].data = NULL
    /\ handle[p].data_owner \in {0, p}
\* The descriptor of process p does not name p as its owner.
Foreign(p) == handle[p].magic /\ handle[p].data_owner # p

\* C6 (as claimed): a Register that fails on a foreign descriptor (invalid
\* prime_fd, or an import libgbm rejects) leaves data_owner and data as they
\* were before the call.
C6_FailedRegisterLeavesOwner ==
    [][\A p \in Procs :
        (IsCall("register", p) /\ Foreign(p) /\ ret' = "-EINVAL")
        => (/\ handle'[p].data_owner = handle[p].data_owner
            /\ handle'[p].data = handle[p].data)]_vars

C8_NoDestroyWhileLocked ==
    [][\A o \in ObjIds :
        (\E i \in 1..Len(calls') : calls'[i] = <<"gbm_bo_destroy", o>>)
        => (heap[o].lock_count = 0 /\ heap[o].map_data = NULL)]_vars

\* C9: Register on a descriptor whose owner is the calling process returns
\* the object its data names (success iff data is non-null), invokes no
\* libgbm primitive and changes neither the descriptor nor any object.
C9_OwnedRegisterDoesNotImport ==
    [][\A p \in Procs :
        (/\ IsCall("register", p)
         /\ handle[p].magic
         /\ handle[p].data_owner = p)
        => (/\ calls' = <<>>
            /\ (ret' = "0") <=> (handle[p].data # NULL)
            /\ handle' = handle
            /\ heap' = heap)]_vars

\* C9 witness: Register succeeded on the descriptor of a live local object
\* without any import.
C9_Witness ==
    /\ op.name = "register" /\ ret = "0" /\ calls = <<>>
    /\ handle[op.proc].data_owner = op.proc
    /\ heap[handle[op.proc].data].live

\* C10: a Register on a foreign descriptor (owner zero or another process)
\* invokes at most one libgbm primitive, the import; when it succeeds the
\* descriptor names the calling process and a new object, which was not live
\* before, is not the object of any other process and has lock count 0; the
\* other objects and the other processes' descriptors are unchanged.
C10_CrossProcessImport ==
    [][\A p \in Procs :
        (IsCall("register", p) /\ Foreign(p))
        => (/\ Len(calls') <= 1
            /\ \A q \in Procs \ {p} : handle'[q] = handle[q]
            /\ ret' = "0" =>
                LET o == handle'[p].data IN
                /\ calls' = << <<"gbm_bo_import", o>> >>
                /\ handle'[p].data_owner = p
                /\ o # NULL
                /\ ~heap[o].live
                /\ heap'[o] = NewBo
                /\ \A q \in Procs \ {p} : BoFromHandle(q) # o
                /\ \A x \in ObjIds \ {o} : heap'[x] = heap[x])]_vars

\* C10 witness: process B registered a descriptor that still named process A
\* and its object, and both processes now hold objects of their own.
C10_Witness ==
    /\ op.name = "register" /\ ret = "0" /\ Invoked("gbm_bo_import")
    /\ \E q \in Procs \ {op.proc} :
          /\ handle[q].magic /\ handle[q].data_owner = q
          /\ handle[q].data # NULL
          /\ handle[q].data # handle[op.proc].data
          /\ heap[handle[q].data].live
          /\ heap[handle[q].data].lock_count > 0

\* The mask c has every bit of the flag f.
Contains(c, f) == f \subseteq c

\* C11 (as claimed): a Lock on a resolvable, unlocked object returns -EINVAL
\* exactly when the requested usage is not a subset of the creation usage
\* and the creation usage contains none of SW_READ_OFTEN, HW_FB, HW_TEXTURE.
C11_PermissionCheck ==
    [][\A p \in Procs :
        LET b == BoFromHandle(p)
            c == handle[p].usage
            u == op'.usage
        IN
        (IsCall("lock", p) /\ b # NULL /\ heap[b].lock_count = 0)
        => ((ret' = "-EINVAL") <=>
                (/\ ~(u \subseteq c)
                 /\ ~Contains(c, GRALLOC_USAGE_SW_READ_OFTEN)
                 /\ ~Contains(c, GRALLOC_USAGE_HW_FB)
                 /\ ~Contains(c, GRALLOC_USAGE_HW_TEXTURE)))]_vars

\* C12: a Lock that returns an error leaves every object (lock count,
\* locked_for, map_data) and every descriptor as it was.
C12_FailedLockChangesNothing ==
    [][\A p \in Procs :
        (IsCall("lock", p) /\ ret' # "0")
        => (heap' = heap /\ handle' = handle)]_vars

\* C12 witness: libgbm returned no address to a Lock with CPU intent, which
\* failed with -ENOMEM and left the object Unlocked.
C12_Witness ==
    /\ op.name = "lock" /\ ret = "-ENOMEM" /\ Invoked("gbm_bo_map")
    /\ Unlocked(heap[handle[op.proc].data])

\* C15 (as claimed): Unregister on a descriptor this process has just made
\* with Create destroys nothing and leaves the descriptor as it was.
C15_UnregisterLocalIsNoOp ==
    [][\A p \in Procs :
        (/\ op.name = "create" /\ op.proc = p /\ ret = "handle"
         /\ IsCall("unregister", p))
        => (calls' = <<>> /\ handle' = handle /\ heap' = heap)]_vars

\* C16: a permitted, compatible Lock whose usage joined with locked_for has
\* no CPU bit succeeds, calls no libgbm primitive and raises the lock count
\* by one; the Unlock that follows it succeeds, calls no libgbm primitive and
\* brings the lock count back.
C16_LockWithoutCpuIntent ==
    [][\A p \in Procs :
        LET b == BoFromHandle(p) IN
        /\ (/\ IsCall("lock", p)
            /\ b # NULL
            /\ LockPermitted(handle[p].usage, op'.usage)
            /\ (heap[b].lock_count > 0 => op'.usage \subseteq heap[b].locked_for)
            /\ (op'.usage \cup heap[b].locked_for) \cap CpuMask = {})
           => (/\ ret' = "0"
               /\ calls' = <<>>
               /\ heap'[b].lock_count = heap[b].lock_count + 1
               /\ heap'[b].map_data = NULL)
        /\ (/\ IsCall("unlock", p)
            /\ op.name = "lock" /\ op.proc = p /\ ret = "0"
            /\ heap[b].locked_for \cap CpuMask = {})
           => (/\ ret' = "0"
               /\ calls' = <<>>
               /\ heap'[b].lock_count = op.cnt)]_vars

\* C16 witness: the Unlock of a nested lock without CPU intent brought the
\* lock count from 2 back to 1 without any libgbm call.
C16_Witness ==
    /\ op.name = "unlock" /\ ret = "0" /\ calls = <<>> /\ op.cnt = 2
    /\ heap[handle[op.proc].data].lock_count = 1
    /\ heap[handle[op.proc].data].locked_for # {}
    /\ heap[handle[op.proc].data].map_data = NULL

Resolved == {BoFromHandle(p) : p \in Procs} \ {NULL}

\* C20: the live objects (created or imported and not destroyed) are exactly
\* those a descriptor resolves to in its process, one per such descriptor
\* and none otherwise; and only live objects are destroyed.
C20_NoLeakNoDuplicate ==
    [][/\ {o \in ObjIds : heap'[o].live} = Resolved'
       /\ \A p, q \in Procs :
            (p # q /\ BoFromHandle(p)' # NULL) => BoFromHandle(p)' # BoFromHandle(q)'
       /\ \A o \in ObjIds :
            (\E i \in 1..Len(calls') : calls'[i] = <<"gbm_bo_destroy", o>>)
            => heap[o].live]_vars

\* C20 witness: in a process that is alone in holding the descriptor, an
\* Unregister destroyed the object and no live object is left.
C20_Witness ==
    /\ op.name = "unregister" /\ ret = "0" /\ Invoked("gbm_bo_destroy")
    /\ \A q \in Procs \ {op.proc} : ~handle[q].magic
    /\ \A o \in ObjIds : ~heap[o].live

\* C14: for the YV12 format and every logical (w, h), the sizes handed to
\* libgbm by gbm_alloc, by gbm_import and by gbm_map of the full rectangle
\* (0, 0, w, h) are the same: width w / 2 and height h + h / 2.
C14_PlanarGeometryAgrees ==
    (/\ geom.format = "HAL_PIXEL_FORMAT_YV12"
     /\ geom.alloc.set /\ geom.import.set /\ geom.map.set
     /\ geom.x = 0 /\ geom.y = 0)
    => (/\ geom.alloc = geom.import
        /\ geom.import = geom.map
        /\ geom.alloc.width = geom.width \div 2
        /\ geom.alloc.height = geom.height + (geom.height \div 2))

\* C14 witness: all three sizes were computed for a YV12 buffer of odd width
\* and odd height, where the divisions round.
C14_Witness ==
    /\ geom.format = "HAL_PIXEL_FORMAT_YV12"
    /\ geom.width = 3 /\ geom.height = 3
    /\ geom.alloc.set /\ geom.import.set /\ geom.map.set
    /\ geom.x = 0 /\ geom.y = 0
    /\ geom.map.width = 1 /\ geom.map.height = 4

\* C13: the cached pid is established exactly once: over any execution, with
\* several threads making their first access at the same time, gralloc_gbm_pid
\* is written at most once.
C13_PidWrittenAtMostOnce == hist.pid_writes <= 1

\* C17: at every statement of gralloc_gbm_handle_unregister, two threads
\* unregistering the same descriptor included, a descriptor whose data_owner
\* is the current pid and whose data is not NULL refers to an object that has
\* not been destroyed.
C17_OwnershipClearedBeforeDestroy ==
    (ThreadHandle.data_owner = ThreadProc /\ ThreadHandle.data # NULL)
    => heap[ThreadHandle.data].live

\* Both threads made one call, a gralloc_gbm_bo_lock with CPU intent that
\* returned 0, and nothing undefined happened.
BothCpuLocksSucceeded ==
    /\ ~hist.ub
    /\ \A t \in Threads :
          /\ pc[t] = "idle"
          /\ loc[t].n = 1
          /\ loc[t].call = "lock"
          /\ WantsCpu(loc[t].usage)
          /\ loc[t].ret = "0"

\* C18: nothing serialises concurrent callers.  When two threads each lock
\* the same unlocked object with CPU intent and both calls return success,
\* both passed the already-mapped check: gbm_bo_map was invoked twice with no
\* gbm_bo_unmap in between, and the object is left locked with a CPU mask.
C18_ConcurrentCpuLocksMapTwice ==
    BothCpuLocksSucceeded
    => LET bo == heap[BoFromHandle(ThreadProc)] IN
       /\ hist.trace = <<"gbm_bo_map", "gbm_bo_map">>
       /\ bo.lock_count \in {1, 2}
       /\ WantsCpu(bo.locked_for)

\* C18 witness: the interleaving exists, and ends with lock count 2.
C18_Witness ==
    /\ BothCpuLocksSucceeded
    /\ hist.trace = <<"gbm_bo_map", "gbm_bo_map">>
    /\ heap[BoFromHandle(ThreadProc)].lock_count = 2
    /\ WantsCpu(heap[BoFromHandle(ThreadProc)].locked_for)

====
